---- MODULE Spec2Model ----
(***************************************************************************)
(* A model of the Loki client (src/loki_client.py) and of the tool that    *)
(* reads raw pod logs (src/server.py).                                      *)
(*                                                                         *)
(* Text is a sequence of one-character strings.  A Python dict is a        *)
(* sequence of <<key, value>> pairs in insertion order.  The wall clock is *)
(* counted in ticks, TicksPerSec of them to a second.                      *)
(***************************************************************************)
EXTENDS Integers, Sequences, FiniteSets, TLC

VARIABLES clock, pc, args, requests, response, outcome, result, th, frames

vars == <<clock, pc, args, requests, response, outcome, result, th, frames>>

(***************************************************************************)
(* Bounds of the model.                                                    *)
(***************************************************************************)
MaxStrLen == 1
MaxStreams == 2
MaxClock == 3
TicksPerSec == 2
BootSeconds == 10800

(***************************************************************************)
(* Constants of the program.                                               *)
(***************************************************************************)
HourSeconds == 3600
NsPerSec == 1000000000
UsPerNs == 1000
SummaryLimit == 5000
DefaultLimit == 100
DefaultRangeLimit == 1000
SampleCap == 10
ReasonLen == 200
MessageLen == 300
TopPods == 10
TailLines == 20
DefaultHours == 1

(***************************************************************************)
(* Text.                                                                   *)
(***************************************************************************)
Min(a, b) == IF a < b THEN a ELSE b

\* Python's s[:n]
Prefix(s, n) == SubSeq(s, 1, Min(n, Len(s)))

\* Python's "tok in msg"
Contains(msg, tok) ==
    \E i \in 0..(Len(msg) - Len(tok)) : SubSeq(msg, i + 1, i + Len(tok)) = tok

\* The text of n characters c.
Repeat(c, n) == [i \in 1..n |-> c]

Alphabet == {"a", "\"", "\\"}

RECURSIVE StringsUpTo(_)
StringsUpTo(n) ==
    IF n = 0 THEN {<<>>}
    ELSE LET shorter == StringsUpTo(n - 1)
         IN  shorter \cup {s \o <<c>> : s \in shorter, c \in Alphabet}

Strings == StringsUpTo(MaxStrLen)

(***************************************************************************)
(* Python dicts and Counters.                                              *)
(***************************************************************************)
HasKey(d, k) == \E i \in 1..Len(d) : d[i][1] = k

\* dict.get(k, default)
Get(d, k, default) ==
    IF HasKey(d, k) THEN d[CHOOSE i \in 1..Len(d) : d[i][1] = k][2] ELSE default

Keys(d) == {d[i][1] : i \in 1..Len(d)}

\* d[k] = v
Put(d, k, v) ==
    IF HasKey(d, k)
    THEN [i \in 1..Len(d) |-> IF d[i][1] = k THEN <<k, v>> ELSE d[i]]
    ELSE Append(d, <<k, v>>)

\* counter[k] += 1
Increment(counter, k) == Put(counter, k, Get(counter, k, 0) + 1)

\* The place a (key, count) pair takes in a list sorted by descending count:
\* Python's sort is stable, so it goes after every pair that counts as much.
RECURSIVE InsertByCount(_, _)
InsertByCount(sorted, kv) ==
    IF sorted = <<>> THEN <<kv>>
    ELSE IF Head(sorted)[2] >= kv[2]
         THEN <<Head(sorted)>> \o InsertByCount(Tail(sorted), kv)
         ELSE <<kv>> \o sorted

RECURSIVE SortByCount(_)
SortByCount(counter) ==
    IF counter = <<>> THEN <<>>
    ELSE InsertByCount(SortByCount(SubSeq(counter, 1, Len(counter) - 1)),
                       counter[Len(counter)])

\* Counter.most_common()
MostCommonAll(counter) == SortByCount(counter)

\* Counter.most_common(n)
MostCommon(counter, n) == Prefix(SortByCount(counter), n)

(***************************************************************************)
(* Query construction.                                                     *)
(***************************************************************************)
Quote == <<"\"">>

NamespaceOpen == <<"{", "n", "a", "m", "e", "s", "p", "a", "c", "e", "=">> \o Quote
NamespaceClose == Quote \o <<"}">>
Space == <<" ">>
OrSep == <<" ", "o", "r", " ">>

TokERROR == <<"E", "R", "R", "O", "R">>
TokPANIC == <<"P", "A", "N", "I", "C">>
TokFATAL == <<"F", "A", "T", "A", "L">>
TokRestart == <<"r", "e", "s", "t", "a", "r", "t">>
TokCrashLoop ==
    <<"C", "r", "a", "s", "h", "L", "o", "o", "p", "B", "a", "c", "k", "O", "f", "f">>
TokOOMKilled == <<"O", "O", "M", "K", "i", "l", "l", "e", "d">>

\* |= "tok"
LineContains(tok) == <<"|", "=", " ">> \o Quote \o tok \o Quote

\* |~ "pattern"
LineMatches(pattern) == <<"|", "~", " ">> \o Quote \o pattern \o Quote

ErrorFilter ==
    LineContains(TokERROR) \o OrSep \o LineContains(TokPANIC) \o OrSep
        \o LineContains(TokFATAL)

RestartFilter ==
    LineContains(TokRestart) \o OrSep \o LineContains(TokCrashLoop) \o OrSep
        \o LineContains(TokOOMKilled)

\* The value as it is put between the quotes of a namespace matcher.
InterpolateNamespace(namespace) == namespace

\* The value as it is put between the quotes of a line filter.
InterpolatePattern(query) == query

NamespaceSelector(namespace) ==
    NamespaceOpen \o InterpolateNamespace(namespace) \o NamespaceClose

ErrorQuery(namespace) ==
    IF namespace # <<>>
    THEN NamespaceSelector(namespace) \o Space \o ErrorFilter
    ELSE ErrorFilter

RestartQuery(namespace) ==
    IF namespace # <<>>
    THEN NamespaceSelector(namespace) \o Space \o RestartFilter
    ELSE RestartFilter

SearchQuery(query, namespace) ==
    IF namespace # <<>>
    THEN NamespaceSelector(namespace) \o Space
             \o LineMatches(InterpolatePattern(query))
    ELSE LineMatches(InterpolatePattern(query))

(***************************************************************************)
(* Time.  An instant is a number of ticks since the epoch.                 *)
(***************************************************************************)
\* datetime.now() at model time t
Now(t) == (BootSeconds * TicksPerSec) + t

\* instant - timedelta(hours=hours)
MinusHours(instant, hours) == instant - (hours * HourSeconds * TicksPerSec)

\* int(instant.timestamp()): int() cuts towards zero
IntTimestamp(instant) ==
    IF instant >= 0 THEN instant \div TicksPerSec
    ELSE 0 - ((0 - instant) \div TicksPerSec)

\* int(...) * 1_000_000_000, written in base 10^9: <<units of 10^9, units>>
ToNanos(seconds) == <<seconds, 0>>

NanosLess(a, b) == a[1] < b[1] \/ (a[1] = b[1] /\ a[2] < b[2])

\* The params of query_range.
RangeParams(query, start, end, limit) ==
    [query |-> query,
     start |-> ToNanos(IntTimestamp(start)),
     end   |-> ToNanos(IntTimestamp(end)),
     limit |-> limit]

(***************************************************************************)
(* The backend's answers.                                                  *)
(***************************************************************************)
DigitValue(c) ==
    CASE c = "0" -> 0 [] c = "1" -> 1 [] c = "2" -> 2 [] c = "3" -> 3
      [] c = "4" -> 4 [] c = "5" -> 5 [] c = "6" -> 6 [] c = "7" -> 7
      [] c = "8" -> 8 [] c = "9" -> 9 [] OTHER -> -1

\* Whether int(s) returns: the texts of the model hold no sign, blank or "_".
IsNumeric(s) == s # <<>> /\ \A i \in 1..Len(s) : DigitValue(s[i]) >= 0

RECURSIVE IntOf(_)
IntOf(s) ==
    IF s = <<>> THEN 0
    ELSE (10 * IntOf(SubSeq(s, 1, Len(s) - 1))) + DigitValue(s[Len(s)])

\* datetime.fromtimestamp(ns / 1_000_000_000), to the microsecond
FromTimestamp(ns) == [sec |-> ns \div NsPerSec, usec |-> (ns % NsPerSec) \div UsPerNs]

\* datetime.isoformat(): the seconds, and the microseconds when there are any
Isoformat(t) == IF t.usec = 0 THEN <<t.sec>> ELSE <<t.sec, t.usec>>

\* Response.raise_for_status() returns
IsSuccess(status_code) == 200 <= status_code /\ status_code < 300

\* The entry that parse_log_entries appends for one value pair.
EntryOf(labels, pair) ==
    [timestamp |-> FromTimestamp(IntOf(pair[1])),
     message   |-> pair[2],
     labels    |-> labels]

\* The inner loop with a malformed pair passed over instead of raised on.
RECURSIVE ParseValuesSkip(_, _, _)
ParseValuesSkip(labels, values, entries) ==
    IF values = <<>> THEN [error |-> "none", entries |-> entries]
    ELSE IF ~IsNumeric(Head(values)[1])
         THEN ParseValuesSkip(labels, Tail(values), entries)
         ELSE ParseValuesSkip(labels, Tail(values),
                              Append(entries, EntryOf(labels, Head(values))))

\* The inner loop with each entry put in front of the list.
RECURSIVE ParseValuesPrepend(_, _, _)
ParseValuesPrepend(labels, values, entries) ==
    IF values = <<>> THEN [error |-> "none", entries |-> entries]
    ELSE IF ~IsNumeric(Head(values)[1])
         THEN [error |-> "ValueError", entries |-> entries]
         ELSE ParseValuesPrepend(labels, Tail(values),
                                 <<EntryOf(labels, Head(values))>> \o entries)

\* The inner loop of parse_log_entries, from the values left to read.
RECURSIVE ParseValues(_, _, _)
ParseValues(labels, values, entries) ==
    IF values = <<>> THEN [error |-> "none", entries |-> entries]
    ELSE IF ~IsNumeric(Head(values)[1])
         THEN [error |-> "ValueError", entries |-> entries]
         ELSE ParseValues(labels, Tail(values),
                          Append(entries, EntryOf(labels, Head(values))))

\* The values a stream is read for.
StreamValues(stream) == Get(stream, "values", <<>>)

\* The streams a decoded response is read for.
ResultStreams(json) == Get(Get(json, "data", <<>>), "result", <<>>)

\* The outer loop of parse_log_entries, from the streams left to read.
RECURSIVE ParseStreams(_, _)
ParseStreams(streams, entries) ==
    IF streams = <<>> THEN [error |-> "none", entries |-> entries]
    ELSE LET labels == Get(Head(streams), "stream", <<>>)
             inner  == ParseValues(labels, StreamValues(Head(streams)), entries)
         IN  IF inner.error # "none" THEN inner
             ELSE ParseStreams(Tail(streams), inner.entries)

\* The parser with the fields indexed, not defaulted: a missing one raises.
parse_log_entries_strict(json) ==
    IF \/ ~HasKey(json, "data")
       \/ ~HasKey(Get(json, "data", <<>>), "result")
       \/ \E k \in 1..Len(ResultStreams(json)) : ~HasKey(ResultStreams(json)[k], "values")
    THEN [error |-> "KeyError", entries |-> <<>>]
    ELSE ParseStreams(ResultStreams(json), <<>>)

parse_log_entries(json) == ParseStreams(ResultStreams(json), <<>>)

(***************************************************************************)
(* The three reducers.  Each is a loop over the parsed entries: the body   *)
(* of the loop is a step on the call's locals, the loop is its fold.       *)
(***************************************************************************)
Unknown == <<"u", "n", "k", "n", "o", "w", "n">>

\* entry["labels"].get("pod_name", "unknown")
PodOf(entry) == Get(entry.labels, "pod_name", Unknown)

\* if tok in msg: error_types[tok] += 1
CountToken(error_types, msg, name, tok) ==
    IF Contains(msg, tok) THEN Increment(error_types, name) ELSE error_types

\* The names the three loops use, as each call binds them before its loop.
InitLocals ==
    [error_types |-> <<>>, error_messages |-> <<>>, affected_pods |-> {},
     restarts_by_pod |-> <<>>, restart_reasons |-> <<>>, logs_by_pod |-> <<>>]

\* The step with the three tests chained by elif: one level at most per entry.
ErrorStepExclusive(locals, entry) ==
    LET msg  == entry.message
        name == IF Contains(msg, TokERROR) THEN "ERROR"
                ELSE IF Contains(msg, TokPANIC) THEN "PANIC"
                ELSE IF Contains(msg, TokFATAL) THEN "FATAL" ELSE "none"
    IN  [locals EXCEPT
             !.affected_pods  = @ \cup {PodOf(entry)},
             !.error_types    = IF name = "none" THEN @ ELSE Increment(@, name),
             !.error_messages =
                 IF Len(@) < SampleCap THEN Append(@, Prefix(msg, ReasonLen)) ELSE @]

ErrorStep(locals, entry) ==
    LET msg == entry.message
        c1  == CountToken(locals.error_types, msg, "ERROR", TokERROR)
        c2  == CountToken(c1, msg, "PANIC", TokPANIC)
        c3  == CountToken(c2, msg, "FATAL", TokFATAL)
    IN  [locals EXCEPT
             !.affected_pods  = @ \cup {PodOf(entry)},
             !.error_types    = c3,
             !.error_messages =
                 IF Len(@) < SampleCap THEN Append(@, Prefix(msg, ReasonLen)) ELSE @]

ErrorResult(namespace, hours, entries, locals) ==
    [total_errors     |-> Len(entries),
     time_range_hours |-> hours,
     error_breakdown  |-> MostCommonAll(locals.error_types),
     affected_pods    |-> locals.affected_pods,
     sample_errors    |-> locals.error_messages,
     namespaces       |-> IF namespace # <<>> THEN <<namespace>> ELSE <<"all">>]

\* The step without the test for a first sighting: the last message wins.
RestartStepOverwrite(locals, entry) ==
    [locals EXCEPT
         !.restarts_by_pod = Increment(@, PodOf(entry)),
         !.restart_reasons = Put(@, PodOf(entry), Prefix(entry.message, ReasonLen))]

RestartStep(locals, entry) ==
    LET pod == PodOf(entry)
    IN  [locals EXCEPT
             !.restarts_by_pod = Increment(@, pod),
             !.restart_reasons =
                 IF ~HasKey(@, pod)
                 THEN Put(@, pod, Prefix(entry.message, ReasonLen))
                 ELSE @]

RestartResult(hours, entries, locals) ==
    [total_restart_events |-> Len(entries),
     affected_pods        |-> MostCommon(locals.restarts_by_pod, TopPods),
     restart_reasons      |-> locals.restart_reasons,
     time_range_hours     |-> hours]

\* The step with the group assigned, not appended to.
SearchStepReplace(locals, entry) ==
    [locals EXCEPT
         !.logs_by_pod =
             Put(@, PodOf(entry),
                 <<[timestamp |-> Isoformat(entry.timestamp),
                    message   |-> Prefix(entry.message, MessageLen)]>>)]

SearchStep(locals, entry) ==
    LET pod   == PodOf(entry)
        log   == [timestamp |-> Isoformat(entry.timestamp),
                  message   |-> Prefix(entry.message, MessageLen)]
        known == IF ~HasKey(locals.logs_by_pod, pod)
                 THEN Put(locals.logs_by_pod, pod, <<>>)
                 ELSE locals.logs_by_pod
    IN  [locals EXCEPT
             !.logs_by_pod = Put(known, pod, Append(Get(known, pod, <<>>), log))]

SearchResult(query, hours, entries, locals) ==
    [query            |-> query,
     total_matches    |-> Len(entries),
     logs_by_pod      |-> locals.logs_by_pod,
     time_range_hours |-> hours]

\* The three calls that reduce parsed entries to a record.
Reducers == {"get_error_summary", "get_pod_restarts", "search_logs"}

\* The body of a call's loop.
Step(op, locals, entry) ==
    CASE op = "get_error_summary" -> ErrorStep(locals, entry)
      [] op = "get_pod_restarts"  -> RestartStep(locals, entry)
      [] op = "search_logs"       -> SearchStep(locals, entry)

\* for entry in entries: ...
RECURSIVE Loop(_, _, _)
Loop(op, locals, entries) ==
    IF entries = <<>> THEN locals
    ELSE Loop(op, Step(op, locals, Head(entries)), Tail(entries))

\* The record a call returns.
Result(a, entries, locals) ==
    CASE a.op = "get_error_summary" -> ErrorResult(a.namespace, a.hours, entries, locals)
      [] a.op = "get_pod_restarts"  -> RestartResult(a.hours, entries, locals)
      [] a.op = "search_logs"       -> SearchResult(a.query, a.hours, entries, locals)

\* The query a call builds.
QueryOf(a) ==
    CASE a.op = "get_error_summary" -> ErrorQuery(a.namespace)
      [] a.op = "get_pod_restarts"  -> RestartQuery(a.namespace)
      [] a.op = "search_logs"       -> SearchQuery(a.query, a.namespace)

NoResult == <<>>

\* What a call makes of the backend's answer: query_range from
\* raise_for_status on, parse_log_entries, the loop and the return.
Answer(a, resp) ==
    IF ~IsSuccess(resp.status_code)
    THEN [outcome |-> "HTTPStatusError", result |-> NoResult]
    ELSE LET parsed == parse_log_entries(resp.json)
         IN  IF parsed.error # "none"
             THEN [outcome |-> parsed.error, result |-> NoResult]
             ELSE [outcome |-> "ok",
                   result  |-> Result(a, parsed.entries,
                                      Loop(a.op, InitLocals, parsed.entries))]

(***************************************************************************)
(* get_pod_logs, the tool of src/server.py.                                *)
(***************************************************************************)
\* What the class LokiClient defines, and what its constructor sets.
LokiClientAttributes ==
    {"url", "client", "query_range", "get_labels", "get_namespaces",
     "get_pods_in_namespace", "parse_log_entries", "extract_error_level",
     "get_error_summary", "get_pod_restarts", "search_logs"}

\* Whether loki.<name> is found.
HasAttribute(name) == name \in LokiClientAttributes

\* Backslashes and double quotes, each behind a backslash.
RECURSIVE EscapeLogql(_)
EscapeLogql(s) ==
    IF s = <<>> THEN <<>>
    ELSE (IF Head(s) \in {"\\", "\""} THEN <<"\\", Head(s)>> ELSE <<Head(s)>>)
             \o EscapeLogql(Tail(s))

PodOpen == <<"{", "p", "o", "d", "_", "n", "a", "m", "e", "=", "~">> \o Quote
PodNamespace == Quote \o <<",", "n", "a", "m", "e", "s", "p", "a", "c", "e", "=">> \o Quote

PodLogsQuery(pod_name, namespace) ==
    IF namespace # <<>>
    THEN PodOpen \o EscapeLogql(pod_name) \o PodNamespace \o EscapeLogql(namespace)
             \o NamespaceClose
    ELSE PodOpen \o EscapeLogql(pod_name) \o NamespaceClose

\* Python's s[-n:]
Suffix(s, n) == SubSeq(s, (Len(s) - Min(n, Len(s))) + 1, Len(s))

PodLogsText(a, entries) ==
    [pod_name    |-> a.pod_name,
     hours       |-> a.hours,
     total_lines |-> Len(entries),
     lines       |-> [i \in 1..Len(Suffix(entries, TailLines)) |->
                         <<Isoformat(Suffix(entries, TailLines)[i].timestamp),
                           Suffix(entries, TailLines)[i].message>>]]

\* What get_pod_logs makes of the backend's answer.
PodLogsAnswer(a, resp) ==
    IF ~IsSuccess(resp.status_code)
    THEN [outcome |-> "HTTPStatusError", result |-> NoResult]
    ELSE LET parsed == parse_log_entries(resp.json)
         IN  IF parsed.error # "none"
             THEN [outcome |-> parsed.error, result |-> NoResult]
             ELSE [outcome |-> "ok", result |-> PodLogsText(a, parsed.entries)]

(***************************************************************************)
(* The inputs of the model: arguments and backend answers.                 *)
(***************************************************************************)
HoursValues == {0, 1, 2}

Ts1 == <<"1", "5", "0", "0", "0", "0", "0", "0", "0", "0">>
Ts2 == <<"2", "0", "0", "0", "0", "0", "0", "0", "0", "1">>
TsBad == <<"1", "x">>

MsgError == TokERROR \o <<":">>
MsgBoth == TokFATAL \o Space \o TokERROR
MsgPartial == <<"E", "R", "R">>
MsgPanic == TokPANIC
MsgOOM == TokOOMKilled
MsgLong == Repeat("x", ReasonLen - 2) \o TokERROR \o Repeat("x", ReasonLen - 2)

LabelsA == << <<"pod_name", <<"a">> >> >>
LabelsB == << <<"namespace", <<"n">> >>, <<"pod_name", <<"b">> >> >>
LabelsNoPod == << <<"namespace", <<"n">> >> >>

StreamOf(labels, values) == << <<"stream", labels>>, <<"values", values>> >>

StreamA1 == StreamOf(LabelsA, << <<Ts1, MsgError>> >>)
StreamA2 == StreamOf(LabelsA, << <<Ts2, MsgLong>>, <<Ts1, MsgBoth>> >>)
StreamB1 == StreamOf(LabelsB, << <<Ts1, MsgPanic>> >>)
StreamNoPod == StreamOf(LabelsNoPod, << <<Ts2, MsgPartial>>, <<Ts1, MsgError>> >>)
StreamEmpty == StreamOf(LabelsB, <<>>)
StreamNoValues == << <<"stream", LabelsA>> >>
StreamNoLabels == << <<"values", << <<Ts1, MsgOOM>> >> >> >>
StreamBadTs == StreamOf(LabelsA, << <<Ts1, MsgError>>, <<TsBad, MsgPanic>> >>)

Streams ==
    {StreamA1, StreamA2, StreamB1, StreamNoPod, StreamEmpty, StreamNoValues,
     StreamNoLabels, StreamBadTs}

RECURSIVE StreamSeqs(_)
StreamSeqs(n) ==
    IF n = 0 THEN {<<>>}
    ELSE LET shorter == StreamSeqs(n - 1)
         IN  shorter \cup {ss \o <<s>> : ss \in shorter, s \in Streams}

Success == <<"status", <<"s", "u", "c", "c", "e", "s", "s">> >>

BodyOf(streams) == <<Success, <<"data", << <<"result", streams>> >> >> >>
BodyNoResult == <<Success, <<"data", <<>> >> >>
BodyNoData == <<Success>>

\* Eleven pods, the last of them seen twice: more pods than most_common keeps.
PodNames == {<<"p", d>> : d \in {"0", "1", "2", "3", "4", "5", "6", "7", "8", "9"}}
               \cup {<<"q">>}

RECURSIVE OneStreamEach(_)
OneStreamEach(pods) ==
    IF pods = {} THEN <<>>
    ELSE LET pod == CHOOSE x \in pods : TRUE
         IN  <<StreamOf(<< <<"pod_name", pod>> >>, << <<Ts1, MsgOOM>> >>)>>
                 \o OneStreamEach(pods \ {pod})

ManyPods ==
    OneStreamEach(PodNames)
        \o <<StreamOf(<< <<"pod_name", <<"q">> >> >>, << <<Ts2, MsgError>> >>)>>

Http(status_code, json) == [status_code |-> status_code, json |-> json]

Responses ==
    {Http(200, BodyOf(ss)) : ss \in StreamSeqs(MaxStreams)}
        \cup {Http(200, BodyNoData), Http(200, BodyNoResult),
              Http(200, BodyOf(ManyPods)),
              Http(500, BodyNoData), Http(404, BodyOf(<<>>)),
              Http(503, BodyOf(ManyPods))}

(***************************************************************************)
(* One call at a time: the state between two calls of the tools.           *)
(***************************************************************************)
NoArgs ==
    [op |-> "none", namespace |-> <<>>, hours |-> 0, query |-> <<>>,
     pod_name |-> <<>>, limit |-> 0]

NoResponse == Http(0, <<>>)

Args(op, namespace, hours, query, pod_name, limit) ==
    [op |-> op, namespace |-> namespace, hours |-> hours, query |-> query,
     pod_name |-> pod_name, limit |-> limit]

\* The time that passes between two readings of the clock within a call.
Delays == {d \in {0, 1} : clock + d <= MaxClock}

\* The cases a call is tried on: every argument against a few answers of the
\* backend, and every answer of the backend against a few arguments.
PlainResponses ==
    {Http(200, BodyOf(<<StreamA1>>)),
     Http(200, BodyOf(<<>>)), Http(500, BodyNoData)}

PlainStrings == {<<>>, <<"a">>}

Cases ==
    [namespace : Strings, text : Strings, hours : HoursValues, resp : PlainResponses]
        \cup [namespace : PlainStrings, text : {<<"a">>}, hours : {DefaultHours},
              resp : Responses]

\* The cases of the calls that take no text beside the namespace.
ArgumentCases == {c \in Cases : c.text = <<"a">>}

\* A call of the client: start is read from the clock, the query is built,
\* query_range reads the clock again for end and sends the request, and the
\* answer is parsed and reduced.
ClientCall(a, resp, d) ==
    LET answer == Answer(a, resp)
    IN  /\ clock' = clock + d
        /\ args' = a
        /\ requests' = <<RangeParams(QueryOf(a), MinusHours(Now(clock), a.hours),
                                     Now(clock + d), a.limit)>>
        /\ response' = resp
        /\ outcome' = answer.outcome
        /\ result' = answer.result
        /\ pc' = "returned"
        /\ UNCHANGED <<th, frames>>

GetErrorSummary ==
    /\ pc = "idle"
    /\ \E c \in ArgumentCases, d \in Delays :
        ClientCall(Args("get_error_summary", c.namespace, c.hours, <<>>, <<>>,
                        SummaryLimit), c.resp, d)

GetPodRestarts ==
    /\ pc = "idle"
    /\ \E c \in ArgumentCases, d \in Delays :
        ClientCall(Args("get_pod_restarts", c.namespace, c.hours, <<>>, <<>>,
                        SummaryLimit), c.resp, d)

SearchLogs ==
    /\ pc = "idle"
    /\ \E c \in Cases, d \in Delays :
        ClientCall(Args("search_logs", c.namespace, c.hours, c.text, <<>>,
                        DefaultLimit), c.resp, d)

\* get_pod_logs: the client is there, the escaping method is looked up on it
\* before anything else is done.
GetPodLogs ==
    /\ pc = "idle"
    /\ \E c \in Cases, d \in Delays :
        LET a == Args("get_pod_logs", c.namespace, c.hours, <<>>, c.text, DefaultLimit)
            answer == PodLogsAnswer(a, c.resp)
        IN  /\ args' = a
            /\ pc' = "returned"
            /\ IF ~HasAttribute("_escape_logql_string")
               THEN /\ outcome' = "AttributeError"
                    /\ result' = NoResult
                    /\ requests' = <<>>
                    /\ response' = NoResponse
                    /\ clock' = clock
               ELSE /\ clock' = clock + d
                    /\ requests' =
                           <<RangeParams(PodLogsQuery(a.pod_name, a.namespace),
                                         MinusHours(Now(clock), a.hours),
                                         Now(clock + d), a.limit)>>
                    /\ response' = c.resp
                    /\ outcome' = answer.outcome
                    /\ result' = answer.result
            /\ UNCHANGED <<th, frames>>

\* query_range with start and end left out: both are read from the clock.
QueryRange ==
    /\ pc = "idle"
    /\ \E query \in Strings, resp \in PlainResponses, d \in Delays :
        /\ clock' = clock + d
        /\ args' = Args("query_range", <<>>, DefaultHours, query, <<>>, DefaultRangeLimit)
        /\ requests' = <<RangeParams(query, MinusHours(Now(clock), DefaultHours),
                                     Now(clock + d), DefaultRangeLimit)>>
        /\ response' = resp
        /\ outcome' = IF IsSuccess(resp.status_code) THEN "ok" ELSE "HTTPStatusError"
        /\ result' = IF IsSuccess(resp.status_code) THEN resp.json ELSE NoResult
        /\ pc' = "returned"
        /\ UNCHANGED <<th, frames>>

\* parse_log_entries called on a decoded response.
ParseLogEntries ==
    /\ pc = "idle"
    /\ \E resp \in {r \in Responses : IsSuccess(r.status_code)} :
        LET parsed == parse_log_entries(resp.json)
        IN  /\ args' = Args("parse_log_entries", <<>>, 0, <<>>, <<>>, 0)
            /\ requests' = <<>>
            /\ response' = resp
            /\ outcome' = IF parsed.error = "none" THEN "ok" ELSE parsed.error
            /\ result' = IF parsed.error = "none" THEN parsed.entries ELSE NoResult
            /\ pc' = "returned"
            /\ UNCHANGED <<clock, th, frames>>

\* The tool hands its result, or its error, to its caller.
Return ==
    /\ pc = "returned"
    /\ pc' = "idle"
    /\ args' = NoArgs
    /\ requests' = <<>>
    /\ response' = NoResponse
    /\ outcome' = "none"
    /\ result' = NoResult
    /\ UNCHANGED <<clock, th, frames>>

(***************************************************************************)
(* Two calls at once on the one client of src/server.py.  A call is cut    *)
(* into its steps: building and sending the query, taking the answer and   *)
(* parsing it, each turn of its loop, and its return.                      *)
(***************************************************************************)
Threads == {1, 2}

\* One frame for every call, as when the locals are kept on the client.
SharedFrame(t) == 1

\* The frame that holds the locals of the call of thread t: its own.
FrameOf(t) == t

IdleThread ==
    [pc |-> "idle", a |-> NoArgs, query |-> <<>>, resp |-> NoResponse,
     entries |-> <<>>, i |-> 0, outcome |-> "none", result |-> NoResult,
     overlapped |-> FALSE]

ConcResponses ==
    {Http(200, BodyOf(<<StreamA1, StreamB1>>)), Http(200, BodyOf(<<StreamNoPod>>)),
     Http(200, BodyOf(<<StreamBadTs>>)), Http(500, BodyNoData)}

\* The call is made: its query is built and its request is sent.
ThCall(t) ==
    /\ th[t].pc = "idle"
    /\ \E op \in Reducers, namespace \in PlainStrings :
        LET a == Args(op, namespace, DefaultHours,
                      IF op = "search_logs" THEN <<"a">> ELSE <<>>, <<>>,
                      IF op = "search_logs" THEN DefaultLimit ELSE SummaryLimit)
        IN  th' = [th EXCEPT ![t] = [IdleThread EXCEPT
                       !.pc = "sent", !.a = a, !.query = QueryOf(a)]]
    /\ UNCHANGED <<clock, pc, args, requests, response, outcome, result, frames>>

\* The backend answers: the status is checked, the body is parsed, and the
\* locals of the loop are bound.
ThReceive(t) ==
    /\ th[t].pc = "sent"
    /\ \E resp \in ConcResponses :
        LET parsed == parse_log_entries(resp.json)
        IN  IF ~IsSuccess(resp.status_code)
            THEN /\ th' = [th EXCEPT ![t].pc = "done", ![t].resp = resp,
                                     ![t].outcome = "HTTPStatusError"]
                 /\ frames' = frames
            ELSE IF parsed.error # "none"
            THEN /\ th' = [th EXCEPT ![t].pc = "done", ![t].resp = resp,
                                     ![t].outcome = parsed.error]
                 /\ frames' = frames
            ELSE /\ th' = [th EXCEPT ![t].pc = "loop", ![t].resp = resp,
                                     ![t].entries = parsed.entries, ![t].i = 1]
                 /\ frames' = [frames EXCEPT ![FrameOf(t)] = InitLocals]
    /\ UNCHANGED <<clock, pc, args, requests, response, outcome, result>>

\* One turn of the loop over the entries.
ThStep(t) ==
    /\ th[t].pc = "loop"
    /\ th[t].i <= Len(th[t].entries)
    /\ frames' = [frames EXCEPT
                      ![FrameOf(t)] = Step(th[t].a.op, @, th[t].entries[th[t].i])]
    /\ th' = [th EXCEPT
                  ![t].i = @ + 1,
                  ![t].overlapped = @ \/ \E u \in Threads \ {t} : th[u].pc = "loop"]
    /\ UNCHANGED <<clock, pc, args, requests, response, outcome, result>>

\* The loop is over: the record is built from the locals and returned.
ThReturn(t) ==
    /\ th[t].pc = "loop"
    /\ th[t].i > Len(th[t].entries)
    /\ th' = [th EXCEPT
                  ![t].pc = "done",
                  ![t].outcome = "ok",
                  ![t].result = Result(th[t].a, th[t].entries, frames[FrameOf(t)])]
    /\ UNCHANGED <<clock, pc, args, requests, response, outcome, result, frames>>

\* The caller has taken the record, or the error.
ThEnd(t) ==
    /\ th[t].pc = "done"
    /\ th' = [th EXCEPT ![t] = IdleThread]
    /\ UNCHANGED <<clock, pc, args, requests, response, outcome, result, frames>>

Init ==
    /\ clock = 0
    /\ pc = "idle"
    /\ args = NoArgs
    /\ requests = <<>>
    /\ response = NoResponse
    /\ outcome = "none"
    /\ result = NoResult
    /\ th = [t \in Threads |-> IdleThread]
    /\ frames = [t \in Threads |-> InitLocals]

Next ==
    \/ GetErrorSummary
    \/ GetPodRestarts
    \/ SearchLogs
    \/ GetPodLogs
    \/ QueryRange
    \/ ParseLogEntries
    \/ Return

Spec == Init /\ [][Next]_vars

ConcNext ==
    \E t \in Threads :
        \/ ThCall(t)
        \/ ThReceive(t)
        \/ ThStep(t)
        \/ ThReturn(t)
        \/ ThEnd(t)

ConcSpec == Init /\ [][ConcNext]_vars

(***************************************************************************)
(* The response as the claims read it: its value pairs, each with the      *)
(* labels of its stream, in stream order and then in value order.          *)
(***************************************************************************)
Returned(op) == pc = "returned" /\ args.op = op

StreamsIn(json) ==
    IF HasKey(json, "data") /\ HasKey(Get(json, "data", <<>>), "result")
    THEN Get(Get(json, "data", <<>>), "result", <<>>)
    ELSE <<>>

ValuesIn(stream) == IF HasKey(stream, "values") THEN Get(stream, "values", <<>>) ELSE <<>>

LabelsIn(stream) == IF HasKey(stream, "stream") THEN Get(stream, "stream", <<>>) ELSE <<>>

RECURSIVE Flatten(_)
Flatten(streams) ==
    IF streams = <<>> THEN <<>>
    ELSE [i \in 1..Len(ValuesIn(Head(streams))) |->
             [labels |-> LabelsIn(Head(streams)), ts |-> ValuesIn(Head(streams))[i][1],
              message |-> ValuesIn(Head(streams))[i][2]]]
             \o Flatten(Tail(streams))

Pairs(json) == Flatten(StreamsIn(json))

GroupOf(pair) ==
    IF HasKey(pair.labels, "pod_name") THEN Get(pair.labels, "pod_name", <<>>) ELSE Unknown

HasBadTimestamp(json) ==
    \E i \in 1..Len(Pairs(json)) :
        \/ Pairs(json)[i].ts = <<>>
        \/ \E j \in 1..Len(Pairs(json)[i].ts) :
               Pairs(json)[i].ts[j] \notin {"0", "1", "2", "3", "4", "5", "6", "7", "8", "9"}

MissingField(json) ==
    \/ ~HasKey(json, "data")
    \/ ~HasKey(Get(json, "data", <<>>), "result")
    \/ \E k \in 1..Len(StreamsIn(json)) : ~HasKey(StreamsIn(json)[k], "values")

SuccessStatus == response.status_code \in 200..299

\* The count a summary gives of the entries it was made from.
Total ==
    CASE args.op = "get_error_summary" -> result.total_errors
      [] args.op = "get_pod_restarts"  -> result.total_restart_events
      [] args.op = "search_logs"       -> result.total_matches

\* The indices of the pairs of one pod, and of the messages holding a token.
PairsOfPod(json, pod) == {i \in 1..Len(Pairs(json)) : GroupOf(Pairs(json)[i]) = pod}

PairsWith(json, tok) == {i \in 1..Len(Pairs(json)) : Contains(Pairs(json)[i].message, tok)}

PodsSeen(json) == {GroupOf(Pairs(json)[i]) : i \in 1..Len(Pairs(json))}

SetMin(S) == CHOOSE x \in S : \A y \in S : x <= y

\* The elements of a sequence of numbers, in increasing order.
RECURSIVE Ascending(_)
Ascending(S) == IF S = {} THEN <<>> ELSE <<SetMin(S)>> \o Ascending(S \ {SetMin(S)})

(***************************************************************************)
(* The query as the backend's lexer reads it: a string literal runs from   *)
(* a double quote to the next double quote that no backslash escapes.      *)
(***************************************************************************)
\* The place of the quote that ends a literal whose text starts at i (0: none).
RECURSIVE LiteralEnd(_, _)
LiteralEnd(q, i) ==
    IF i > Len(q) THEN 0
    ELSE IF q[i] = "\\" THEN LiteralEnd(q, i + 2)
    ELSE IF q[i] = "\"" THEN i
    ELSE LiteralEnd(q, i + 1)

RECURSIVE Unescape(_)
Unescape(s) ==
    IF s = <<>> THEN <<>>
    ELSE IF Head(s) = "\\" /\ Len(s) >= 2
         THEN <<s[2]>> \o Unescape(SubSeq(s, 3, Len(s)))
         ELSE <<Head(s)>> \o Unescape(Tail(s))

\* Whether every literal of q, read from i on, is ended.
RECURSIVE Terminated(_, _)
Terminated(q, i) ==
    IF i > Len(q) THEN TRUE
    ELSE IF q[i] = "\""
         THEN LiteralEnd(q, i + 1) # 0 /\ Terminated(q, LiteralEnd(q, i + 1) + 1)
         ELSE Terminated(q, i + 1)

\* The texts of the literals of q, read from i on.
RECURSIVE Literals(_, _)
Literals(q, i) ==
    IF i > Len(q) THEN <<>>
    ELSE IF q[i] = "\""
         THEN IF LiteralEnd(q, i + 1) = 0 THEN <<>>
              ELSE <<Unescape(SubSeq(q, i + 1, LiteralEnd(q, i + 1) - 1))>>
                       \o Literals(q, LiteralEnd(q, i + 1) + 1)
         ELSE Literals(q, i + 1)

\* The literals the builder means a call's query to hold.
Intended(a) ==
    (IF a.namespace # <<>> THEN <<a.namespace>> ELSE <<>>)
        \o (CASE a.op = "get_error_summary" -> <<TokERROR, TokPANIC, TokFATAL>>
              [] a.op = "get_pod_restarts"  -> <<TokRestart, TokCrashLoop, TokOOMKilled>>
              [] a.op = "search_logs"       -> <<a.query>>)

(***************************************************************************)
(* The claims.                                                             *)
(***************************************************************************)

\* C1: in every query sent by get_error_summary, get_pod_restarts or
\* search_logs, the namespace and the search pattern are escaped before they
\* are interpolated: read by the backend's lexer, the query holds exactly the
\* literals the builder meant, none ended early by a character of the input.
C1_Escaped ==
    (pc = "returned" /\ args.op \in Reducers) =>
        \A i \in 1..Len(requests) :
            /\ Terminated(requests[i].query, 1)
            /\ Literals(requests[i].query, 1) = Intended(args)

\* C2: a call of one of the three reducers whose range query is answered with
\* a status that is no success, or whose response holds a value pair with a
\* timestamp that is no number, ends in an error and returns no record.
C2_AllOrNothing ==
    (pc = "returned" /\ args.op \in Reducers
        /\ (~SuccessStatus \/ HasBadTimestamp(response.json))) =>
        (outcome \notin {"ok", "none"} /\ result = NoResult)

C2_Witness ==
    /\ pc = "returned" /\ args.op \in Reducers
    /\ SuccessStatus
    /\ HasBadTimestamp(response.json)
    /\ Len(Pairs(response.json)) >= 2
    /\ Pairs(response.json)[1].ts = Ts1
    /\ outcome = "ValueError"

\* C3 as stated: a decoded response that lacks "data", "result" or the "values"
\* of a stream makes the call fail; no summary is returned for it.
C3_MissingFieldFails ==
    (pc = "returned" /\ args.op \in Reducers /\ SuccessStatus
        /\ MissingField(response.json)) =>
        outcome # "ok"

\* C3 as amended: a decoded response that lacks "data", "result" or the
\* "values" of a stream, and holds no malformed timestamp, does not fail: the
\* missing field is read as empty and the call returns the summary of the value
\* pairs that are there.
C3_MissingFieldDefaults ==
    (pc = "returned" /\ args.op \in Reducers /\ SuccessStatus
        /\ MissingField(response.json) /\ ~HasBadTimestamp(response.json)) =>
        (outcome = "ok" /\ Total = Len(Pairs(response.json)))

C3_Witness ==
    /\ pc = "returned" /\ args.op \in Reducers /\ SuccessStatus
    /\ \E k \in 1..Len(StreamsIn(response.json)) :
           ~HasKey(StreamsIn(response.json)[k], "values")
    /\ outcome = "ok"
    /\ Total >= 1

\* A response every field of which is there and every timestamp a number.
WellFormed(json) ==
    /\ ~MissingField(json)
    /\ ~HasBadTimestamp(json)
    /\ \A k \in 1..Len(StreamsIn(json)) : HasKey(StreamsIn(json)[k], "stream")

RECURSIVE ValueCount(_)
ValueCount(streams) ==
    IF streams = <<>> THEN 0
    ELSE Len(ValuesIn(Head(streams))) + ValueCount(Tail(streams))

\* C4: for a well-formed response parse_log_entries returns as many entries as
\* the streams hold value pairs; the j-th pair of the k-th stream is the entry
\* that comes after all the pairs of the streams before k and the j - 1 pairs
\* before it, with the labels of stream k; an empty stream adds no entry.
C4_ParseOrder ==
    (Returned("parse_log_entries") /\ WellFormed(response.json)) =>
        LET streams == StreamsIn(response.json)
        IN  /\ outcome = "ok"
            /\ Len(result) = ValueCount(streams)
            /\ \A k \in 1..Len(streams) :
                   \A j \in 1..Len(ValuesIn(streams[k])) :
                       LET e == result[ValueCount(SubSeq(streams, 1, k - 1)) + j]
                       IN  /\ e.message = ValuesIn(streams[k])[j][2]
                           /\ e.labels = LabelsIn(streams[k])

C4_Witness ==
    /\ Returned("parse_log_entries") /\ WellFormed(response.json)
    /\ outcome = "ok"
    /\ Len(StreamsIn(response.json)) >= 2
    /\ ValuesIn(StreamsIn(response.json)[1]) = <<>>
    /\ Len(result) >= 2

\* The count the breakdown gives for a level (none: the level is not listed).
Breakdown(name) == Get(result.error_breakdown, name, 0)

\* C5: in the record of get_error_summary total_errors is the number of parsed
\* entries and the breakdown count of each of ERROR, PANIC and FATAL is the
\* number of entries whose message holds it, each counted on its own.
C5_Breakdown ==
    (Returned("get_error_summary") /\ outcome = "ok") =>
        /\ result.total_errors = Len(Pairs(response.json))
        /\ Breakdown("ERROR") = Cardinality(PairsWith(response.json, TokERROR))
        /\ Breakdown("PANIC") = Cardinality(PairsWith(response.json, TokPANIC))
        /\ Breakdown("FATAL") = Cardinality(PairsWith(response.json, TokFATAL))
        /\ Keys(result.error_breakdown) \subseteq {"ERROR", "PANIC", "FATAL"}

C5_Witness ==
    /\ Returned("get_error_summary") /\ outcome = "ok"
    /\ PairsWith(response.json, TokERROR) \cap PairsWith(response.json, TokFATAL) # {}
    /\ Breakdown("ERROR") + Breakdown("PANIC") + Breakdown("FATAL") > result.total_errors

\* C6: in get_pod_restarts the reason stored for a pod is the message,
\* cut to 200 characters, of the first parsed entry of that pod, whatever
\* comes later; the count of the pod is the number of parsed entries of it,
\* in the counter of the loop and wherever the record lists the pod.
C6_FirstReason ==
    (Returned("get_pod_restarts") /\ outcome = "ok") =>
        LET json   == response.json
            locals == Loop("get_pod_restarts", InitLocals,
                           parse_log_entries(json).entries)
        IN  /\ Keys(result.restart_reasons) = PodsSeen(json)
            /\ \A pod \in PodsSeen(json) :
                   /\ Get(result.restart_reasons, pod, <<>>) =
                          Prefix(Pairs(json)[SetMin(PairsOfPod(json, pod))].message,
                                 ReasonLen)
                   /\ Get(locals.restarts_by_pod, pod, 0) =
                          Cardinality(PairsOfPod(json, pod))
                   /\ HasKey(result.affected_pods, pod) =>
                          Get(result.affected_pods, pod, 0) =
                              Cardinality(PairsOfPod(json, pod))

C6_Witness ==
    /\ Returned("get_pod_restarts") /\ outcome = "ok"
    /\ Cardinality(PairsOfPod(response.json, <<"a">>)) = 3
    /\ Pairs(response.json)[1].message = MsgLong
    /\ Get(result.restart_reasons, <<"a">>, <<>>) = Prefix(MsgLong, ReasonLen)
    /\ Get(result.affected_pods, <<"a">>, 0) = 3

\* The pods of a response in the order in which they are first seen.
FirstSeen(json) ==
    LET firsts == {SetMin(PairsOfPod(json, pod)) : pod \in PodsSeen(json)}
    IN  [n \in 1..Cardinality(firsts) |-> GroupOf(Pairs(json)[Ascending(firsts)[n]])]

\* C7: in the record of search_logs total_matches is the number of parsed
\* entries and the sum of the lengths of the groups; the groups come in the
\* order in which their pods are first seen, each holds the messages of its
\* pod in parsed order, and an entry with no pod_name label is in "unknown".
C7_Groups ==
    (Returned("search_logs") /\ outcome = "ok") =>
        LET json   == response.json
            groups == result.logs_by_pod
        IN  /\ result.total_matches = Len(Pairs(json))
            /\ [n \in 1..Len(groups) |-> groups[n][1]] = FirstSeen(json)
            /\ \A n \in 1..Len(groups) :
                   LET mine == Ascending(PairsOfPod(json, groups[n][1]))
                   IN  /\ Len(groups[n][2]) = Len(mine)
                       /\ \A m \in 1..Len(mine) :
                              groups[n][2][m].message =
                                  Prefix(Pairs(json)[mine[m]].message, MessageLen)
            /\ \A i \in 1..Len(Pairs(json)) :
                   ~HasKey(Pairs(json)[i].labels, "pod_name") =>
                       \E m \in 1..Len(Get(groups, Unknown, <<>>)) :
                           Get(groups, Unknown, <<>>)[m].message =
                               Prefix(Pairs(json)[i].message, MessageLen)

C7_Witness ==
    /\ Returned("search_logs") /\ outcome = "ok"
    /\ Len(result.logs_by_pod) = 2
    /\ result.logs_by_pod[2][1] = Unknown
    /\ result.logs_by_pod[1][1] = <<"a">>
    /\ Len(result.logs_by_pod[1][2]) = 2
    /\ result.total_matches = 4

\* C8: every range query sent carries a window whose start is strictly
\* before its end.
C8_Window ==
    \A i \in 1..Len(requests) : NanosLess(requests[i].start, requests[i].end)

\* C10: with the client there, get_pod_logs sends its range query, and when
\* the backend answers it with success and well-formed timestamps it returns
\* a text whose Total Lines is the number of parsed entries.
C10_PodLogsCompletes ==
    Returned("get_pod_logs") =>
        /\ Len(requests) = 1
        /\ (SuccessStatus /\ ~HasBadTimestamp(response.json)) =>
               (outcome = "ok" /\ result.total_lines = Len(Pairs(response.json)))

\* C9: when two calls of the reducers run on the one client with their steps
\* interleaved, each returns the record, or the error, that it returns when
\* it runs alone on the same answer of the backend.
C9_Isolated ==
    \A t \in Threads :
        th[t].pc = "done" =>
            /\ th[t].outcome = Answer(th[t].a, th[t].resp).outcome
            /\ th[t].result = Answer(th[t].a, th[t].resp).result

C9_Witness ==
    /\ th[1].pc = "done" /\ th[1].outcome = "ok" /\ th[1].overlapped
    /\ Len(th[1].entries) = 2
    /\ th[2].pc = "done" /\ th[2].outcome = "ok" /\ th[2].overlapped
    /\ th[2].a.op = th[1].a.op

====
